---- MODULE Spec2Model ----
(***************************************************************************)
(* Model of the configuration materializer of toggl_git_python_utility:    *)
(* ConfigManager (load_config / new_config / generate_config), the prompt  *)
(* resolvers of config_func.py and the JSON persistence of the            *)
(* configuration document.                                                 *)
(*                                                                         *)
(* Text is a sequence of one-character strings, so that base64, str(),     *)
(* int(), Path() and the e-mail pattern are computed character by          *)
(* character.                                                              *)
(***************************************************************************)
EXTENDS Integers, Sequences, FiniteSets, TLC

VARIABLES
    file,       \* the persisted document configuration.json
    argv,       \* sys.argv of the run (<<>> when ConfigManager is built directly)
    new,        \* the `new` argument of ConfigManager.__init__
    pc,         \* "idle", "prompt", "done" (config returned), "crashed"
    mode,       \* "fresh" (new_config) or "reuse" (load_config decoded the document)
    fallback,   \* new_config was entered from the except branch of load_config
    data,       \* values collected so far by generate_config, one per leaf
    idx,        \* the leaf whose resolver is waiting for input
    reads,      \* inputs read by the resolver call in progress
    errors,     \* error messages printed by the resolver call in progress
    lastIn,     \* the last line the operator typed
    lastLeaf,   \* the leaf whose resolver read it (0: none in this run)
    called,     \* per leaf: the prompt resolver called for it in this run
    config,     \* self.config of the finished run
    written,    \* the value whose encoding new_config wrote last
    before,     \* the document as it was when the run started
    prev,       \* what the Reuse run before this Reuse run returned, for a
                \* document that new_config wrote
    klass,      \* the class handed to util.all_annotations: its __mro__
    anno,       \* what all_annotations returned for it
    faults,     \* the file system of this behaviour can fail a write
    wr,         \* how the write of new_config ended in this run
    wf,         \* the position of main after the configuration was obtained
    response,   \* what the tracker API answered to the request for the entry
    entry,      \* the tracker entry grab_tggl_time_entry returned
    issued,     \* the commands and requests this run issued, in order
    freshRan,   \* the code-quality commands of the Fresh run that wrote the
                \* document
    output      \* what the output of the test command of this run reported

vars == <<file, argv, new, pc, mode, fallback, data, idx, reads, errors,
          lastIn, lastLeaf, called, config, written, before, prev,
          klass, anno, faults, wr, wf, response, entry, issued, freshRan,
          output>>

-----------------------------------------------------------------------------
(* Bounds *)

\* invalid lines the operator types into one resolver call
MaxBad == 1

\* invalid paths the operator types into one call of create_path when the
\* retry loop is examined
MaxRetry == 3

\* classes in the __mro__ handed to all_annotations (object not counted) and
\* annotations declared by one class
MaxMro == 3
MaxFields == 2

-----------------------------------------------------------------------------
(* Characters *)

Upper == <<"A","B","C","D","E","F","G","H","I","J","K","L","M",
           "N","O","P","Q","R","S","T","U","V","W","X","Y","Z">>
Lower == <<"a","b","c","d","e","f","g","h","i","j","k","l","m",
           "n","o","p","q","r","s","t","u","v","w","x","y","z">>
Digits == <<"0","1","2","3","4","5","6","7","8","9">>

Range(s) == {s[i] : i \in 1..Len(s)}

\* ord() of the characters the operator can type into a secret prompt
Ord(c) ==
    IF \E i \in 1..26 : Upper[i] = c THEN 64 + (CHOOSE i \in 1..26 : Upper[i] = c)
    ELSE IF \E i \in 1..26 : Lower[i] = c THEN 96 + (CHOOSE i \in 1..26 : Lower[i] = c)
    ELSE IF \E i \in 1..10 : Digits[i] = c THEN 47 + (CHOOSE i \in 1..10 : Digits[i] = c)
    ELSE IF c = "!" THEN 33
    ELSE IF c = "+" THEN 43
    ELSE IF c = "/" THEN 47
    ELSE IF c = "=" THEN 61
    ELSE 63

\* the base64 alphabet, indexed from 0
B64Char(i) == (Upper \o Lower \o Digits \o <<"+", "/">>)[i + 1]

RECURSIVE b64encode(_)
b64encode(s) ==
    IF Len(s) = 0 THEN <<>>
    ELSE IF Len(s) = 1 THEN
        LET n == Ord(s[1]) * 65536
        IN  <<B64Char(n \div 262144), B64Char((n \div 4096) % 64), "=", "=">>
    ELSE IF Len(s) = 2 THEN
        LET n == Ord(s[1]) * 65536 + Ord(s[2]) * 256
        IN  <<B64Char(n \div 262144), B64Char((n \div 4096) % 64),
              B64Char((n \div 64) % 64), "=">>
    ELSE
        LET n == Ord(s[1]) * 65536 + Ord(s[2]) * 256 + Ord(s[3])
        IN  <<B64Char(n \div 262144), B64Char((n \div 4096) % 64),
              B64Char((n \div 64) % 64), B64Char(n % 64)>>
            \o b64encode(SubSeq(s, 4, Len(s)))

-----------------------------------------------------------------------------
(* Python values.  t is the type of the value: "none", "str", "int",       *)
(* "bool", "path" (a pathlib.Path) or "type" (a typing annotation object). *)

NoneV == [t |-> "none", s |-> <<>>, n |-> 0, b |-> FALSE]
StrV(x) == [t |-> "str", s |-> x, n |-> 0, b |-> FALSE]
IntV(x) == [t |-> "int", s |-> <<>>, n |-> x, b |-> FALSE]
BoolV(x) == [t |-> "bool", s |-> <<>>, n |-> 0, b |-> x]
PathV(x) == [t |-> "path", s |-> x, n |-> 0, b |-> FALSE]
TypeObj == [t |-> "type", s |-> <<>>, n |-> 0, b |-> FALSE]
\* the outcome of a constructor call that raises TypeError or ValueError
Raised == [t |-> "raised", s |-> <<>>, n |-> 0, b |-> FALSE]

\* the components of a path text, split at "/"
RECURSIVE Split(_, _)
Split(s, cur) ==
    IF Len(s) = 0 THEN <<cur>>
    ELSE IF s[1] = "/" THEN <<cur>> \o Split(Tail(s), <<>>)
    ELSE Split(Tail(s), Append(cur, s[1]))

RECURSIVE Join(_)
Join(parts) ==
    IF Len(parts) = 0 THEN <<>>
    ELSE IF Len(parts) = 1 THEN parts[1]
    ELSE parts[1] \o <<"/">> \o Join(Tail(parts))

\* str(pathlib.Path(s)): empty and "." components are dropped, "" is "."
PathStr(s) ==
    LET parts == SelectSeq(Split(s, <<>>), LAMBDA p : p # <<>> /\ p # <<".">>)
        root == IF Len(s) > 0 /\ s[1] = "/" THEN <<"/">> ELSE <<>>
        body == root \o Join(parts)
    IN  IF body = <<>> THEN <<".">> ELSE body

\* int(s) of a text: an optional sign and decimal digits, else ValueError
DigitVal(c) == (CHOOSE i \in 1..10 : Digits[i] = c) - 1

RECURSIVE DigitsVal(_, _)
DigitsVal(s, acc) ==
    IF Len(s) = 0 THEN acc ELSE DigitsVal(Tail(s), acc * 10 + DigitVal(s[1]))

IsDigits(s) == Len(s) > 0 /\ \A i \in 1..Len(s) : s[i] \in Range(Digits)

ParseInt(s) ==
    IF IsDigits(s) THEN IntV(DigitsVal(s, 0))
    ELSE IF Len(s) > 1 /\ s[1] = "-" /\ IsDigits(Tail(s)) THEN IntV(0 - DigitsVal(Tail(s), 0))
    ELSE IF Len(s) > 1 /\ s[1] = "+" /\ IsDigits(Tail(s)) THEN IntV(DigitsVal(Tail(s), 0))
    ELSE Raised

\* str(n) of an integer
RECURSIVE NatStr(_)
NatStr(n) == IF n < 10 THEN <<Digits[n + 1]>> ELSE Append(NatStr(n \div 10), Digits[(n % 10) + 1])

IntStr(n) == IF n < 0 THEN <<"-">> \o NatStr(0 - n) ELSE NatStr(n)

-----------------------------------------------------------------------------
(* The schema: the dataclasses of config_func.py *)

T_PIP == <<"P","I","P">>
T_Conda == <<"C","o","n","d","a">>
T_Poetry == <<"P","o","e","t","r","y">>
T_Venv == <<"V","e","n","v">>
T_Mypy == <<"M","y","p","y">>
T_Bandit == <<"B","a","n","d","i","t">>
T_Flake8 == <<"F","l","a","k","e","8">>
T_Ruff == <<"R","u","f","f">>
T_Pylint == <<"P","y","l","i","n","t">>
T_Unittest == <<"U","n","i","t","t","e","s","t">>
T_Pytest == <<"P","y","t","e","s","t">>
T_src == <<"s","r","c">>
T_None == <<"N","o","n","e">>
T_True == <<"T","r","u","e">>
T_False == <<"F","a","l","s","e">>

\* dataclasses.MISSING: the field declares no default
MISSING == [t |-> "missing", s |-> <<>>, n |-> 0, b |-> FALSE]

\* one annotated field: opt is "the annotation is Optional[...]" (origin Union),
\* item the first argument of the Union or the annotation itself
Field(k, opt, item, options, default) ==
    [k |-> k, opt |-> opt, item |-> item, options |-> options, default |-> default]

PythonConfig == <<
    Field("package_manager", FALSE, "Literal", <<T_PIP, T_Conda, T_Poetry>>, StrV(T_PIP)),
    Field("environment", FALSE, "Literal", <<T_Conda, T_Venv>>, StrV(T_Venv)),
    Field("type_checking", TRUE, "Literal", <<T_Mypy>>, NoneV),
    Field("security_checking", TRUE, "Literal", <<T_Bandit>>, NoneV),
    Field("linting", TRUE, "Literal", <<T_Flake8, T_Ruff, T_Pylint>>, NoneV),
    Field("tests", TRUE, "Literal", <<T_Unittest, T_Pytest>>, NoneV),
    Field("main_code", FALSE, "Path", <<>>, PathV(T_src)),
    Field("format_code", FALSE, "bool", <<>>, BoolV(TRUE)) >>

GitConfig == <<
    Field("add", FALSE, "bool", <<>>, BoolV(FALSE)),
    Field("commit", FALSE, "bool", <<>>, BoolV(TRUE)),
    Field("push", FALSE, "bool", <<>>, BoolV(FALSE)) >>

TogglAuth == <<
    Field("username", FALSE, "str", <<>>, MISSING),
    Field("password", FALSE, "str", <<>>, MISSING),
    Field("api_key", TRUE, "str", <<>>, NoneV) >>

TogglConfig == <<
    Field("user_data", FALSE, "TogglAuth", <<>>, MISSING),
    Field("project", TRUE, "int", <<>>, NoneV),
    Field("cancel", FALSE, "bool", <<>>, BoolV(FALSE)) >>

ConfigModel == <<
    Field("target_directory", FALSE, "Path", <<>>, MISSING),
    Field("python", FALSE, "PythonConfig", <<>>, MISSING),
    Field("git", FALSE, "GitConfig", <<>>, MISSING),
    Field("toggl", FALSE, "TogglConfig", <<>>, MISSING) >>

\* the classes generate_config recurses into (line 166)
Dataclasses == {"TogglConfig", "TogglAuth", "PythonConfig", "GitConfig"}

\* A class as all_annotations sees it: whether "__annotations__" is in its
\* __dict__, and its own annotations in declaration order.
Class(annotated, annotations) == [annotated |-> annotated, annotations |-> annotations]
object == Class(FALSE, <<>>)

\* cls.__mro__ of the dataclasses of config_func.py: the class, then object
Mro(name) ==
    CASE name = "ConfigModel" -> <<Class(TRUE, ConfigModel), object>>
      [] name = "PythonConfig" -> <<Class(TRUE, PythonConfig), object>>
      [] name = "GitConfig" -> <<Class(TRUE, GitConfig), object>>
      [] name = "TogglConfig" -> <<Class(TRUE, TogglConfig), object>>
      [] name = "TogglAuth" -> <<Class(TRUE, TogglAuth), object>>
      [] OTHER -> <<object>>

\* util.all_annotations lines 37-41: an annotation that is a string is
\* evaluated; eval of a typing object raises TypeError and leaves it as it is
EvalAnnotation(a) ==
    IF "val" \in DOMAIN a /\ a.val.lit THEN [a EXCEPT !.val.lit = FALSE] ELSE a

\* lines 34-42 for one class: a key that is in anno already is skipped
RECURSIVE MergeClass(_, _)
MergeClass(an, own) ==
    IF own = <<>> THEN an
    ELSE MergeClass(IF \E j \in 1..Len(an) : an[j].k = own[1].k
                    THEN an
                    ELSE Append(an, EvalAnnotation(own[1])),
                    Tail(own))

\* line 32: for c in reversed(cls.__mro__)
RECURSIVE MergeMro(_, _)
MergeMro(mro, an) ==
    IF mro = <<>> THEN an
    ELSE LET c == mro[Len(mro)]
         IN  MergeMro(SubSeq(mro, 1, Len(mro) - 1),
                      IF c.annotated THEN MergeClass(an, c.annotations) ELSE an)

\* util.all_annotations of a class given by its __mro__
all_annotations(mro) == MergeMro(mro, <<>>)

\* collect_defaults with `default = False` for every field (the older
\* revision's fallback, src/src/config_func.py line 65)
collect_defaults_false(f) == IF f.default = MISSING \/ f.item = "bool" THEN BoolV(FALSE) ELSE f.default

\* util.collect_defaults: a field without a default gets None
collect_defaults(f) == IF f.default = MISSING THEN NoneV ELSE f.default

\* The leaves of the schema in the order generate_config visits them; an is
\* all_annotations of the class (line 133), rec the key path of the record
\* that holds the leaf.
RECURSIVE LeavesFrom(_, _, _)
LeavesFrom(an, rec, i) ==
    IF i > Len(an) THEN <<>>
    ELSE (IF an[i].item \in Dataclasses
          THEN LeavesFrom(all_annotations(Mro(an[i].item)), Append(rec, an[i].k), 1)
          ELSE <<[rec |-> rec, f |-> an[i]]>>)
         \o LeavesFrom(an, rec, i + 1)

Leaves == LeavesFrom(all_annotations(Mro("ConfigModel")), <<>>, 1)
N == Len(Leaves)
LeafIds == 1..N

\* the records of the schema below the root, by key path
Records == {Leaves[i].rec : i \in LeafIds} \ {<<>>}
Parent(r) == SubSeq(r, 1, Len(r) - 1)

\* the leaf with key k in the record at key path rec
LeafOf(leaves, rec, k) ==
    CHOOSE i \in DOMAIN leaves : leaves[i].rec = rec /\ leaves[i].f.k = k
Leaf(rec, k) == LeafOf(Leaves, rec, k)

L_target_directory == Leaf(<<>>, "target_directory")
L_package_manager == Leaf(<<"python">>, "package_manager")
L_environment == Leaf(<<"python">>, "environment")
L_type_checking == Leaf(<<"python">>, "type_checking")
L_security_checking == Leaf(<<"python">>, "security_checking")
L_linting == Leaf(<<"python">>, "linting")
L_tests == Leaf(<<"python">>, "tests")
L_main_code == Leaf(<<"python">>, "main_code")
L_format_code == Leaf(<<"python">>, "format_code")
L_add == Leaf(<<"git">>, "add")
L_commit == Leaf(<<"git">>, "commit")
L_push == Leaf(<<"git">>, "push")
L_username == Leaf(<<"toggl", "user_data">>, "username")
L_password == Leaf(<<"toggl", "user_data">>, "password")
L_api_key == Leaf(<<"toggl", "user_data">>, "api_key")
L_project == Leaf(<<"toggl">>, "project")
L_cancel == Leaf(<<"toggl">>, "cancel")

-----------------------------------------------------------------------------
(* The persisted document.  A decoded document is top ("object", "null" or  *)
(* "list": what json.load returned), recs (per record key: "object", "null" *)
(* or "missing"), keys (the leaf keys present in their object) and val (the *)
(* JSON value of each present leaf key).                                    *)

Doc(top, recs, keys, val) == [top |-> top, recs |-> recs, keys |-> keys, val |-> val]

\* convert = None: the argument generate_config gets from new_config
NoDoc == Doc("none", [r \in Records |-> "missing"], {}, [i \in LeafIds |-> NoneV])

\* the file: exists, valid (its text is a JSON document) and the document
NoFile == [exists |-> FALSE, valid |-> FALSE, doc |-> NoDoc]
Garbage == [exists |-> TRUE, valid |-> FALSE, doc |-> NoDoc]
FileOf(d) == [exists |-> TRUE, valid |-> TRUE, doc |-> d]

\* util.CustomJSONEncoder.default with json.dumps: a Path is written as
\* str(path), None as null, the JSON types as they are
CustomJSONEncoder(v) == IF v.t = "path" THEN StrV(v.s) ELSE v

\* json.dumps(asdict(config), cls=CustomJSONEncoder): every record an object
\* with every field as a key
Dumps(cfg) ==
    Doc("object", [r \in Records |-> "object"], LeafIds,
        [i \in LeafIds |-> CustomJSONEncoder(cfg[i])])

\* The text json.dumps returns, as its JSON tokens: kind is "{", "}", ":",
\* ",", "string", "number" or "literal" (true, false, null), v the value.
Token(kind, v) == [kind |-> kind, v |-> v]
Punct(kind) == Token(kind, NoneV)
ScalarToken(v) ==
    IF v.t = "str" THEN Token("string", v)
    ELSE IF v.t = "int" THEN Token("number", v)
    ELSE Token("literal", v)

\* the members of the object of a record: an is all_annotations of its class
RECURSIVE Members(_, _, _, _)
Members(an, rec, i, cfg) ==
    IF i > Len(an) THEN <<>>
    ELSE (IF i > 1 THEN <<Punct(",")>> ELSE <<>>)
         \o <<Token("string", StrV(<<an[i].k>>)), Punct(":")>>
         \o (IF an[i].item \in Dataclasses
             THEN <<Punct("{")>>
                  \o Members(all_annotations(Mro(an[i].item)), Append(rec, an[i].k), 1, cfg)
                  \o <<Punct("}")>>
             ELSE <<ScalarToken(CustomJSONEncoder(cfg[Leaf(rec, an[i].k)]))>>)
         \o Members(an, rec, i + 1, cfg)

\* json.dumps(asdict(config), cls=CustomJSONEncoder) as text
Text(cfg) ==
    <<Punct("{")>> \o Members(all_annotations(Mro("ConfigModel")), <<>>, 1, cfg)
    \o <<Punct("}")>>

\* The texts a write of `text` leaves behind when it is interrupted after the
\* file was opened: the first k tokens, and then possibly a part of the next
\* token.  A part of a string or literal is no token ("cut"); a part of a
\* number of several characters is a number or a sign.
CutToken(tok) ==
    IF tok.kind = "number" /\ tok.v.n >= 10 THEN Token("number", IntV(tok.v.n \div 10))
    ELSE Token("cut", tok.v)
CanCut(tok) ==
    \/ tok.kind \in {"string", "literal"}
    \/ tok.kind = "number" /\ (tok.v.n >= 10 \/ tok.v.n < 0)
StrictPrefixes(text) ==
    {SubSeq(text, 1, k) : k \in 0..(Len(text) - 1)}
    \cup {Append(SubSeq(text, 1, k), CutToken(text[k + 1])) :
             k \in {j \in 0..(Len(text) - 1) : CanCut(text[j + 1])}}

\* One token read by the JSON decoder.  q is what the decoder expects next: a
\* "value", the "first" key of an object or its end, the "colon", the "next"
\* member or the end of the object, a "key", or nothing ("done"); depth counts
\* the open objects; "error" is JSONDecodeError.
JsonStep(q, kind, depth) ==
    CASE q = "value" /\ kind \in {"string", "number", "literal"} ->
            [q |-> IF depth = 0 THEN "done" ELSE "next", depth |-> depth]
      [] q = "value" /\ kind = "{" -> [q |-> "first", depth |-> depth + 1]
      [] q = "first" /\ kind = "string" -> [q |-> "colon", depth |-> depth]
      [] q \in {"first", "next"} /\ kind = "}" ->
            [q |-> IF depth = 1 THEN "done" ELSE "next", depth |-> depth - 1]
      [] q = "next" /\ kind = "," -> [q |-> "key", depth |-> depth]
      [] q = "key" /\ kind = "string" -> [q |-> "colon", depth |-> depth]
      [] q = "colon" /\ kind = ":" -> [q |-> "value", depth |-> depth]
      [] OTHER -> [q |-> "error", depth |-> depth]

\* json.load accepting every text that ends where a value is complete, the
\* objects around it still open
RECURSIVE JsonValue_lenient(_, _, _)
JsonValue_lenient(text, q, depth) ==
    IF text = <<>> THEN q \in {"done", "next"}
    ELSE LET step == JsonStep(q, text[1].kind, depth)
         IN  step.q # "error" /\ JsonValue_lenient(Tail(text), step.q, step.depth)

\* json.load (load_config line 111) raises no JSONDecodeError on the text: it
\* is one JSON value
RECURSIVE JsonValue(_, _, _)
JsonValue(text, q, depth) ==
    IF text = <<>> THEN q = "done"
    ELSE LET step == JsonStep(q, text[1].kind, depth)
         IN  step.q # "error" /\ JsonValue(Tail(text), step.q, step.depth)

\* the file that holds `text`, written for the value cfg: a text json.load
\* rejects is a file that is no document
Interrupted == [exists |-> TRUE, valid |-> FALSE, doc |-> [NoDoc EXCEPT !.top = "prefix"]]
FileOfText(text, cfg) ==
    IF JsonValue(text, "value", 0) THEN FileOf(Dumps(cfg)) ELSE Interrupted

\* asdict/json.dumps raise TypeError for a value that is a typing annotation
Serializable(cfg) == \A i \in LeafIds : cfg[i].t # "type"

-----------------------------------------------------------------------------
(* generate_config *)

\* the object at record path r has at least one key
NonEmpty(d, r) ==
    \/ \E i \in d.keys : Leaves[i].rec = r
    \/ \E c \in Records : Parent(c) = r /\ d.recs[c] # "missing"

\* generate_config passing no convert to the records below the root
ConvertKind_root_only(d, r) ==
    IF r = <<>> /\ d.top = "object" /\ NonEmpty(d, r) THEN "dict"
    ELSE IF d.top = "list" THEN "bad" ELSE "none"

\* What `convert` is in the call of generate_config for the record at r:
\* "dict" (a non-empty dict: `if convert:` holds), "none" (None or an empty
\* value: the fields are resolved as in a new configuration) or "bad" (a
\* value that is true and has no .get).
RECURSIVE ConvertKind(_, _)
ConvertKind(d, r) ==
    IF r = <<>> THEN
        (IF d.top = "object" THEN (IF NonEmpty(d, r) THEN "dict" ELSE "none")
         ELSE IF d.top = "list" THEN "bad" ELSE "none")
    ELSE
        LET up == ConvertKind(d, Parent(r))
        IN  IF up = "dict"
            THEN (IF d.recs[r] = "object" /\ NonEmpty(d, r) THEN "dict" ELSE "none")
            ELSE up

\* convert.get(k) for a leaf
Get(d, i) == IF i \in d.keys THEN d.val[i] ELSE NoneV

\* pathlib.Path(v)
Path(v) ==
    IF v.t = "str" THEN PathV(PathStr(v.s))
    ELSE IF v.t = "path" THEN v
    ELSE Raised

\* str(v), bool(v), int(v)
PyStr(v) ==
    IF v.t = "str" THEN v
    ELSE IF v.t = "none" THEN StrV(T_None)
    ELSE IF v.t = "int" THEN StrV(IntStr(v.n))
    ELSE IF v.t = "bool" THEN StrV(IF v.b THEN T_True ELSE T_False)
    ELSE StrV(v.s)

PyBool(v) ==
    IF v.t = "bool" THEN v
    ELSE IF v.t = "int" THEN BoolV(v.n # 0)
    ELSE IF v.t = "none" THEN BoolV(FALSE)
    ELSE BoolV(Len(v.s) > 0)

PyInt(v) ==
    IF v.t = "int" THEN v
    ELSE IF v.t = "bool" THEN IntV(IF v.b THEN 1 ELSE 0)
    ELSE IF v.t = "str" THEN ParseInt(v.s)
    ELSE Raised

\* generate_config resolving a secret by its name before it looks at convert
generate_leaf_secret_again(f, v) ==
    IF f.k \in {"password", "api_key"} THEN StrV(b64encode(PyStr(v).s))
    ELSE IF f.item \in {"Literal", "str"} THEN PyStr(v)
    ELSE IF f.item = "bool" THEN PyBool(v)
    ELSE IF f.item = "int" THEN PyInt(v)
    ELSE Path(v)

\* lines 135-148: config_model is no dataclass: the first argument of a Union,
\* str for a Literal, and the type called with the stored value
generate_leaf(f, v) ==
    IF f.item \in {"Literal", "str"} THEN PyStr(v)
    ELSE IF f.item = "bool" THEN PyBool(v)
    ELSE IF f.item = "int" THEN PyInt(v)
    ELSE Path(v)

\* the dispatch with a branch that gives an Optional field its None default
Resolver_optional_default(f) ==
    IF f.item = "bool" \/ (f.opt /\ f.default = NoneV) THEN "default"
    ELSE IF f.item = "Path" THEN "create_path"
    ELSE IF f.k \in {"password", "api_key"} THEN "select_password"
    ELSE IF f.k = "username" THEN "select_username"
    ELSE IF f.item = "Literal" THEN "select_option"
    ELSE IF f.item = "int" THEN "select_int"
    ELSE "unresolved"

\* the dispatch looking at the shape of a field only: every str field is a
\* secret
Resolver_shape_only(f) ==
    IF f.item = "bool" THEN "default"
    ELSE IF f.item = "Path" THEN "create_path"
    ELSE IF f.item = "str" THEN "select_password"
    ELSE IF f.item = "Literal" THEN "select_option"
    ELSE IF f.item = "int" THEN "select_int"
    ELSE "unresolved"

\* the dispatch without its last branch (line 176: item == int)
Resolver_no_int(f) ==
    IF f.item = "bool" THEN "default"
    ELSE IF f.item = "Path" THEN "create_path"
    ELSE IF f.k \in {"password", "api_key"} THEN "select_password"
    ELSE IF f.k = "username" THEN "select_username"
    ELSE IF f.item = "Literal" THEN "select_option"
    ELSE "unresolved"

\* lines 162-175: how a field is resolved when there is no convert
Resolver(f) ==
    IF f.item = "bool" THEN "default"
    ELSE IF f.item = "Path" THEN "create_path"
    ELSE IF f.k \in {"password", "api_key"} THEN "select_password"
    ELSE IF f.k = "username" THEN "select_username"
    ELSE IF f.item = "Literal" THEN "select_option"
    ELSE IF f.item = "int" THEN "select_int"
    ELSE "unresolved"

Unset == [t |-> "unset", s |-> <<>>, n |-> 0, b |-> FALSE]
NoData == [i \in LeafIds |-> Unset]
NoConfig == <<>>

\* generate_config from leaf i on, until a resolver has to read input ("prompt"),
\* a call raises ("crash") or every field has its value ("end")
RECURSIVE Advance(_, _, _)
Advance(d, dat, i) ==
    IF i > N THEN [st |-> "end", data |-> dat, idx |-> i]
    ELSE
        LET f == Leaves[i].f
            kind == ConvertKind(d, Leaves[i].rec)
        IN  IF kind = "bad" THEN [st |-> "crash", data |-> dat, idx |-> i]
            ELSE IF kind = "dict" THEN
                LET v == generate_leaf(f, Get(d, i))
                IN  IF v = Raised THEN [st |-> "crash", data |-> dat, idx |-> i]
                    ELSE Advance(d, [dat EXCEPT ![i] = v], i + 1)
            ELSE IF Resolver(f) = "default"
                THEN Advance(d, [dat EXCEPT ![i] = collect_defaults(f)], i + 1)
            ELSE IF Resolver(f) = "unresolved"
                THEN Advance(d, [dat EXCEPT ![i] = TypeObj], i + 1)
            ELSE [st |-> "prompt", data |-> dat, idx |-> i]

\* __post_init__ of ConfigModel and PythonConfig
post_init(dat) ==
    [dat EXCEPT ![L_target_directory] = Path(@), ![L_main_code] = Path(@)]

-----------------------------------------------------------------------------
(* The prompt resolvers *)

\* the file system: the paths (as str(Path(p))) that exist
ExistingPaths == {<<".">>, T_src}
Exists(s) == PathStr(s) \in ExistingPaths

\* the pattern of select_username (line 226), as an automaton over the states
\* 0 (start of a local part), 1 (in a local part), 2 (after "@"), 3 (in the
\* domain), 4 (after "."), 5 (one suffix letter), 6 (two or more: accepting)
Alnum == Range(Upper) \cup Range(Lower) \cup Range(Digits)
\* [.-_] is the range from "." to "_"
DotToUnderscore ==
    Range(Upper) \cup Range(Digits)
    \cup {".", "/", ":", ";", "<", "=", ">", "?", "@", "[", "\\", "]", "^", "_"}
DomainChars == Alnum \cup {"-"}
SuffixChars == Range(Upper) \cup Range(Lower) \cup {"|"}

PattStep(q, c) ==
    CASE q = 0 -> IF c \in Alnum THEN {1} ELSE {}
      [] q = 1 -> (IF c \in Alnum THEN {1} ELSE {})
                  \cup (IF c \in DotToUnderscore THEN {0} ELSE {})
                  \cup (IF c = "@" THEN {2} ELSE {})
      [] q = 2 -> IF c \in DomainChars THEN {3} ELSE {}
      [] q = 3 -> (IF c \in DomainChars THEN {3} ELSE {})
                  \cup (IF c = "." THEN {4} ELSE {})
      [] q = 4 -> IF c \in SuffixChars THEN {5} ELSE {}
      [] q = 5 -> IF c \in SuffixChars THEN {6} ELSE {}
      [] q = 6 -> (IF c \in SuffixChars THEN {6} ELSE {})
                  \cup (IF c = "." THEN {4} ELSE {})
      [] OTHER -> {}

RECURSIVE PattRun(_, _)
PattRun(qs, s) ==
    IF Len(s) = 0 THEN qs
    ELSE PattRun(UNION {PattStep(q, s[1]) : q \in qs}, Tail(s))

\* re.fullmatch(regex, email)
fullmatch(s) == 6 \in PattRun({0}, s)

\* what the operator types
PathInputs == {<<"s","r","c","/">>, <<"n","o","p","e">>}
\* at a choice: the first option, the DEFAULT line, or a line that is no choice
OptionInputs(f) == {<<"1">>, NatStr(Len(f.options) + 1), <<"0">>, <<"x">>}
EmailInputs == {<<"a","@","b",".","c","o">>, <<"b","a","d">>}
SecretInputs == {<<"a","b">>}
IntInputs == {<<"7">>, <<"x">>}

\* select_option with range(1, len_it): the last option is no choice
select_option_short_range(f, inp) ==
    LET items == f.options
        len_it == Len(items)
        selection == ParseInt(inp)
    IN  IF selection = Raised THEN Raised
        ELSE IF selection.n \in 1..(len_it - 1) THEN StrV(items[selection.n])
        ELSE IF selection.n = len_it + 1 THEN collect_defaults(f)
        ELSE Raised

\* select_option (lines 197-221) on one line of input: the value returned, or
\* Raised when the loop prompts again
select_option(f, inp) ==
    LET items == f.options
        len_it == Len(items)
        selection == ParseInt(inp)
    IN  IF selection = Raised THEN Raised
        ELSE IF selection.n \in 1..len_it THEN StrV(items[selection.n])
        ELSE IF selection.n = len_it + 1 THEN collect_defaults(f)
        ELSE Raised

\* create_path returning the line without looking at the file system
create_path_unchecked(inp) == StrV(inp)

\* create_path (lines 182-194) on one line of input
create_path(inp) == IF Exists(inp) THEN StrV(inp) ELSE Raised

\* select_username (lines 224-237) on one line of input
select_username(inp) == IF fullmatch(inp) THEN StrV(inp) ELSE Raised

\* select_password (lines 240-246): no validation
select_password(inp) == StrV(b64encode(inp))

\* select_int (lines 249-261) on one line of input
select_int(inp) == ParseInt(inp)

-----------------------------------------------------------------------------
(* ConfigManager *)

NoPrev == [config |-> NoConfig, prompts |-> 0]
NoEntry == [entry_id |-> 0, workspace_id |-> 0, description |-> <<>>]
NoResponse == [status_code |-> 0, running |-> FALSE, project_id |-> 0, entry |-> NoEntry]
NotRun == {"not run"}
Prompted(cal) == {i \in LeafIds : cal[i] # "none"}
NoCalls == [i \in LeafIds |-> "none"]

\* The state after generate_config went on to outcome res in a run of mode m:
\* waiting in the next resolver, ended by an exception, or returned; new_config
\* (lines 116-124) then writes the document.
Settle(res, m, cal, f) ==
    /\ data' = res.data
    /\ idx' = res.idx
    /\ IF res.st = "prompt" THEN
           /\ pc' = "prompt"
           /\ called' = [cal EXCEPT ![res.idx] = Resolver(Leaves[res.idx].f)]
           /\ config' = NoConfig
           /\ file' = f
           /\ wr' = "none"
           /\ UNCHANGED written
       ELSE IF res.st = "crash" THEN
           /\ pc' = "crashed"
           /\ called' = cal
           /\ config' = NoConfig
           /\ file' = f
           /\ wr' = "none"
           /\ UNCHANGED written
       ELSE
           \E cfg \in {post_init(res.data)} :
               /\ called' = cal
               /\ config' = cfg
               /\ IF m = "reuse" THEN
                      /\ pc' = "done"
                      /\ file' = f
                      /\ wr' = "none"
                      /\ UNCHANGED written
                  ELSE IF Serializable(cfg) THEN
                      \E text \in {Text(cfg)} :
                          \/ /\ pc' = "done"
                             /\ file' = FileOfText(text, cfg)
                             /\ wr' = "written"
                             /\ written' = cfg
                          \* open("w") raises OSError: nothing is changed
                          \/ /\ faults
                             /\ pc' = "crashed"
                             /\ file' = f
                             /\ wr' = "open failed"
                             /\ UNCHANGED written
                          \* open("w") emptied the file; the write raises
                          \* OSError or the process is killed with a part of
                          \* the text written
                          \/ /\ faults
                             /\ pc' = "crashed"
                             /\ \E part \in StrictPrefixes(text) :
                                    file' = FileOfText(part, cfg)
                             /\ wr' = "interrupted"
                             /\ UNCHANGED written
                  ELSE
                      \* open("w") emptied the file and json.dumps raised
                      /\ pc' = "crashed"
                      /\ file' = Garbage
                      /\ wr' = "interrupted"
                      /\ written' = NoConfig

\* new_config (lines 116-124); fb: it was called by load_config's except branch
new_config(fb) ==
    /\ mode' = "fresh"
    /\ fallback' = fb
    /\ Settle(Advance(NoDoc, NoData, 1), "fresh", NoCalls, file)

\* load_config without its except branch: the decode error ends the run
load_config_uncaught ==
    IF file.valid THEN
        /\ mode' = "reuse"
        /\ fallback' = FALSE
        /\ Settle(Advance(file.doc, NoData, 1), "reuse", NoCalls, file)
    ELSE
        /\ mode' = "reuse"
        /\ fallback' = FALSE
        /\ Settle([st |-> "crash", data |-> NoData, idx |-> 1], "reuse", NoCalls, file)

\* load_config (lines 105-114)
load_config ==
    IF file.valid THEN
        /\ mode' = "reuse"
        /\ fallback' = FALSE
        /\ Settle(Advance(file.doc, NoData, 1), "reuse", NoCalls, file)
    ELSE
        \* except json.JSONDecodeError: self.new_config()
        new_config(TRUE)

\* ConfigManager.__init__ (lines 92-103)
ConfigManager(nw) ==
    /\ pc \in {"idle", "done", "crashed"}
    /\ new' = nw
    /\ before' = file
    /\ prev' = IF /\ pc = "done" /\ mode = "reuse" /\ written # NoConfig
                  /\ file.exists /\ ~nw /\ file.valid
               THEN [config |-> config, prompts |-> Cardinality(Prompted(called))]
               ELSE NoPrev
    /\ reads' = 0
    /\ errors' = 0
    /\ lastIn' = <<>>
    /\ lastLeaf' = 0
    /\ wf' = "none"
    /\ response' = NoResponse
    /\ entry' = NoEntry
    /\ issued' = <<>>
    /\ freshRan' = IF file.exists /\ ~nw /\ file.valid THEN freshRan ELSE NotRun
    /\ output' = "not run"
    /\ UNCHANGED <<klass, anno, faults>>
    /\ IF file.exists /\ ~nw THEN load_config ELSE new_config(FALSE)

\* main (__main__.py lines 384-402): main(sys.argv) binds argvs to the
\* one-element tuple (sys.argv,)
new_config_flag(a) ==
    LET argvs == <<a>>
    IN  Len(argvs) > 1 /\ argvs[2] \in {"--new_config", "-nc"}

Argvs == {<<"prog">>, <<"prog", "--new_config">>, <<"prog", "-nc">>}

Main ==
    \E a \in Argvs :
        /\ argv' = a
        /\ ConfigManager(new_config_flag(a))

\* ConfigManager(new) built by a caller other than main
Construct ==
    \E nw \in BOOLEAN :
        /\ argv' = <<>>
        /\ ConfigManager(nw)

\* the convert argument of the run in progress
Convert == IF mode = "reuse" THEN before.doc ELSE NoDoc

\* A resolver read one line: res is what it makes of it.  A valid line is
\* returned into data[idx] and generate_config goes on; an invalid one prints
\* an error and the loop reads again.
\* bad: how many invalid lines the operator types into one call at most.
ReadBounded(inp, res, bad) ==
    /\ lastIn' = inp
    /\ lastLeaf' = idx
    /\ reads' = (IF lastLeaf = idx THEN reads ELSE 0) + 1
    /\ UNCHANGED <<argv, new, mode, fallback, before, prev>>
    /\ UNCHANGED <<klass, anno, faults, wf, response, entry, issued, freshRan,
                   output>>
    /\ IF res # Raised THEN
           /\ errors' = (IF lastLeaf = idx THEN errors ELSE 0)
           /\ Settle(Advance(Convert, [data EXCEPT ![idx] = res], idx + 1),
                     mode, called, file)
       ELSE
           /\ (IF lastLeaf = idx THEN errors ELSE 0) < bad
           /\ errors' = (IF lastLeaf = idx THEN errors ELSE 0) + 1
           /\ UNCHANGED <<pc, data, idx, called, config, file, written, wr>>

Read(inp, res) == ReadBounded(inp, res, MaxBad)

Waiting(r) == pc = "prompt" /\ Resolver(Leaves[idx].f) = r

CreatePath == Waiting("create_path") /\ \E inp \in PathInputs : Read(inp, create_path(inp))

SelectOption ==
    Waiting("select_option") /\ \E inp \in OptionInputs(Leaves[idx].f) : Read(inp, select_option(Leaves[idx].f, inp))

SelectUsername ==
    Waiting("select_username") /\ \E inp \in EmailInputs : Read(inp, select_username(inp))

SelectPassword ==
    Waiting("select_password") /\ \E inp \in SecretInputs : Read(inp, select_password(inp))

SelectInt == Waiting("select_int") /\ \E inp \in IntInputs : Read(inp, select_int(inp))

-----------------------------------------------------------------------------
(* main after the configuration was obtained (__main__.py lines 404-441)     *)

\* a subprocess command or an HTTP request, with the text put into it
Cmd(c, a) == [cmd |-> c, arg |-> a]

ToUpper(c) == IF c \in Range(Lower) THEN Upper[CHOOSE i \in 1..26 : Lower[i] = c] ELSE c
ToLower(c) == IF c \in Range(Upper) THEN Lower[CHOOSE i \in 1..26 : Upper[i] = c] ELSE c

\* str.title(): the first letter of a run of letters in upper case, the other
\* letters in lower case
RECURSIVE TitleFrom(_, _)
TitleFrom(s, inWord) ==
    IF s = <<>> THEN <<>>
    ELSE LET alpha == s[1] \in Range(Upper) \cup Range(Lower)
         IN  <<IF ~alpha THEN s[1] ELSE IF inWord THEN ToLower(s[1]) ELSE ToUpper(s[1])>>
             \o TitleFrom(Tail(s), alpha)
title(s) == TitleFrom(s, FALSE)

\* what the tracker API can answer: a status that is not 200, no running entry
\* (the content is null), or the running entry with its project (0: the entry
\* has no project_id)
T_fix_bug == <<"f","i","x"," ","b","U","G","s">>
RunningEntry == [entry_id |-> 31, workspace_id |-> 5, description |-> T_fix_bug]
Response(code, running, project) ==
    [status_code |-> code, running |-> running, project_id |-> project,
     entry |-> IF running THEN RunningEntry ELSE NoEntry]
Responses ==
    {Response(401, FALSE, 0), Response(200, FALSE, 0)}
    \cup {Response(200, TRUE, p) : p \in {0, 7, 12}}

\* grab_tggl_time_entry returning the running entry whatever its project is
grab_tggl_time_entry_any_project(project_id, resp) ==
    IF resp.status_code # 200 THEN [st |-> "ConnectionError", entry |-> NoEntry]
    ELSE IF ~resp.running THEN [st |-> "NotTrackingerror", entry |-> NoEntry]
    ELSE [st |-> "ok", entry |-> resp.entry]

\* TgglApi.grab_tggl_time_entry (lines 75-119): the exception raised, or the
\* entry returned
grab_tggl_time_entry(project_id, resp) ==
    IF resp.status_code # 200 THEN [st |-> "ConnectionError", entry |-> NoEntry]
    ELSE IF ~resp.running THEN [st |-> "NotTrackingerror", entry |-> NoEntry]
    ELSE IF project_id # NoneV /\ project_id # IntV(resp.project_id)
        THEN [st |-> "TrackerError", entry |-> NoEntry]
    ELSE [st |-> "ok", entry |-> resp.entry]

\* test_code going on after an output that has "failed" in it
test_code_unchecked(cfg, module, failed) ==
    IF module = StrV(T_Unittest) THEN [raised |-> FALSE, cmds |-> <<>>]
    ELSE [raised |-> FALSE,
          cmds |-> <<Cmd(IF cfg[L_package_manager] = StrV(T_Poetry)
                         THEN "poetry run pytest tests -v"
                         ELSE "pytest tests -v", <<>>)>>]

\* CodeManagement.test_code (lines 273-299); failed: the output of pytest has
\* "failed" in it
test_code(cfg, module, failed) ==
    IF module = StrV(T_Unittest) THEN [raised |-> FALSE, cmds |-> <<>>]
    ELSE [raised |-> failed,
          cmds |-> <<Cmd(IF cfg[L_package_manager] = StrV(T_Poetry)
                         THEN "poetry run pytest tests -v"
                         ELSE "pytest tests -v", <<>>)>>]

\* CodeManagement.type_check_code (lines 336-342)
type_check_code(cfg) == <<Cmd("mypy", cfg[L_main_code].s)>>

\* CodeManagement.lint_code (lines 301-319)
lint_code(cfg, linter) ==
    IF linter = StrV(T_Flake8) THEN <<Cmd("flake8", cfg[L_main_code].s)>>
    ELSE IF linter = StrV(T_Ruff) THEN <<Cmd("ruff check", cfg[L_main_code].s)>>
    ELSE IF linter = StrV(T_Pylint) THEN <<Cmd("pylint", cfg[L_main_code].s)>>
    ELSE <<>>

\* CodeManagement.generate_requirements (lines 344-361)
generate_requirements(cfg) ==
    IF cfg[L_package_manager] = StrV(T_Poetry) THEN <<Cmd("poetry lock", <<>>)>>
    ELSE IF cfg[L_package_manager] = StrV(T_Conda)
        THEN <<Cmd("conda .conda export environment.yml", <<>>)>>
    ELSE IF cfg[L_package_manager] = StrV(T_PIP)
        THEN <<Cmd("pip freeze > requirements.txt", <<>>)>>
    ELSE <<>>

\* the attributes of a PythonConfig object: its fields
PythonConfigAttributes == {PythonConfig[i].k : i \in 1..Len(PythonConfig)}

\* CodeManagement.run_management_routine (lines 242-271): the commands it
\* runs, and how it ends: "exit" (sys.exit after failed tests),
\* "AttributeError" (self.config.formatter, line 266: PythonConfig has no such
\* field) or "ok"
run_management_routine(cfg, failed) ==
    LET tests == cfg[L_tests]
        tested == IF tests # NoneV THEN test_code(cfg, tests, failed)
                  ELSE [raised |-> FALSE, cmds |-> <<>>]
        checked == tested.cmds
                   \o (IF cfg[L_type_checking] # NoneV THEN type_check_code(cfg) ELSE <<>>)
                   \o (IF cfg[L_linting] # NoneV THEN lint_code(cfg, cfg[L_linting]) ELSE <<>>)
    IN  IF tested.raised THEN [st |-> "exit", cmds |-> tested.cmds]
        ELSE IF "formatter" \notin PythonConfigAttributes
            THEN [st |-> "AttributeError", cmds |-> checked]
        ELSE [st |-> "ok",
              cmds |-> checked
                       \o (IF cfg[L_package_manager] # NoneV
                           THEN generate_requirements(cfg) ELSE <<>>)]

\* main lines 431-441: the git commands and the request that stops the entry
git_and_stop(cfg, e) ==
    (IF PyBool(cfg[L_add]).b THEN <<Cmd("git add .", <<>>)>> ELSE <<>>)
    \o (IF PyBool(cfg[L_commit]).b
        THEN <<Cmd("git commit -m", title(e.description))>> ELSE <<>>)
    \o (IF PyBool(cfg[L_push]).b THEN <<Cmd("git push origin main", <<>>)>> ELSE <<>>)
    \o (IF PyBool(cfg[L_cancel]).b
        THEN <<Cmd("PATCH time_entries/stop", NatStr(e.entry_id))>> ELSE <<>>)

\* the code-quality steps among commands
StepOf(c) ==
    IF c.cmd \in {"pytest tests -v", "poetry run pytest tests -v"} THEN "tests"
    ELSE IF c.cmd = "mypy" THEN "type_checking"
    ELSE IF c.cmd \in {"flake8", "ruff check", "pylint"} THEN "linting"
    ELSE "other"
Steps(cmds) == {StepOf(cmds[i]) : i \in 1..Len(cmds)} \ {"other"}

ConfigVars ==
    <<file, argv, new, pc, mode, fallback, data, idx, reads, errors, lastIn,
      lastLeaf, called, config, written, before, prev, klass, anno, faults, wr>>

\* main lines 404-426: the checks of the repository and the request for the
\* running entry
GrabEntry ==
    /\ pc = "done" /\ argv # <<>> /\ wf = "none"
    /\ \E is_git_repo \in BOOLEAN, resp \in Responses :
          IF ~Exists(config[L_target_directory].s) THEN
              /\ wf' = "exit"
              /\ UNCHANGED <<issued, response, entry>>
          ELSE IF ~is_git_repo THEN
              /\ wf' = "exit"
              /\ issued' = <<Cmd("git rev-parse --is-inside-work-tree", <<>>)>>
              /\ UNCHANGED <<response, entry>>
          ELSE
              \E got \in {grab_tggl_time_entry(config[L_project], resp)} :
                  /\ issued' = <<Cmd("git rev-parse --is-inside-work-tree", <<>>),
                                 Cmd("GET me/time_entries/current", <<>>)>>
                  /\ response' = resp
                  /\ entry' = got.entry
                  /\ wf' = IF got.st = "ok" THEN "entry"
                            ELSE IF got.st = "TrackerError" THEN "raised"
                            ELSE "exit"
    /\ UNCHANGED <<ConfigVars, freshRan, output>>

\* main lines 428-441: the code-quality routine, then add, commit, push and
\* the stop of the entry
RunManagementRoutine ==
    /\ wf = "entry"
    /\ \E failed \in BOOLEAN :
          \E ran \in {run_management_routine(config, failed)} :
              /\ freshRan' = IF mode = "fresh" /\ ran.st # "exit"
                              THEN Steps(ran.cmds) ELSE freshRan
              /\ output' = IF "tests" \notin Steps(ran.cmds) THEN "not run"
                            ELSE IF failed THEN "failed" ELSE "passed"
              /\ IF ran.st = "exit" THEN
                     /\ wf' = "exit"
                     /\ issued' = issued \o ran.cmds
                 ELSE IF ran.st = "AttributeError" THEN
                     /\ wf' = "raised"
                     /\ issued' = issued \o ran.cmds
                 ELSE
                     /\ wf' = "end"
                     /\ issued' = issued \o ran.cmds \o git_and_stop(config, entry)
    /\ UNCHANGED <<ConfigVars, response, entry>>

-----------------------------------------------------------------------------
(* The documents a run can find *)

\* a complete document with every optional field present
FullVal ==
    [i \in LeafIds |->
        CASE i = L_target_directory -> StrV(T_src)
          [] i = L_package_manager -> StrV(T_Poetry)
          [] i = L_environment -> StrV(T_Conda)
          [] i = L_type_checking -> StrV(T_Mypy)
          [] i = L_security_checking -> StrV(T_Bandit)
          [] i = L_linting -> StrV(T_Ruff)
          [] i = L_tests -> StrV(T_Pytest)
          [] i = L_main_code -> StrV(T_src)
          [] i = L_format_code -> BoolV(FALSE)
          [] i = L_add -> BoolV(TRUE)
          [] i = L_commit -> BoolV(TRUE)
          [] i = L_push -> BoolV(TRUE)
          [] i = L_username -> StrV(<<"m","e","@","x",".","o","r","g">>)
          [] i = L_password -> StrV(<<"a","G","k","h">>)
          [] i = L_api_key -> StrV(<<"Y","W","J","j">>)
          [] i = L_project -> IntV(12)
          [] i = L_cancel -> BoolV(TRUE)]

AllRecs == [r \in Records |-> "object"]
DocFull == Doc("object", AllRecs, LeafIds, FullVal)

\* the optional fields of section 6 that may be null, set to null
Nulled(d, S) == [d EXCEPT !.val = [i \in LeafIds |-> IF i \in S THEN NoneV ELSE @[i]]]
DocNullChoices == Nulled(DocFull, {L_type_checking, L_linting, L_tests})
DocNullKey == Nulled(DocFull, {L_api_key})
DocNullProject == Nulled(DocFull, {L_project})

\* a document with keys or records taken out
Without(d, S) == Nulled([d EXCEPT !.keys = @ \ S], S)
WithoutRec(d, r) ==
    LET gone == {i \in LeafIds : Leaves[i].rec = r}
    IN  [Without(d, gone) EXCEPT !.recs[r] = "missing"]
DocNoCommit == Without(DocFull, {L_commit})
DocNoPython == WithoutRec(DocFull, <<"python">>)
DocEmpty == Doc("object", [r \in Records |-> "missing"], {}, [i \in LeafIds |-> NoneV])
DocList == [NoDoc EXCEPT !.top = "list"]

InitFiles ==
    {NoFile, Garbage}
    \cup {FileOf(d) : d \in {DocFull, DocNullChoices, DocNullKey, DocNullProject,
                             DocNoCommit, DocNoPython, DocEmpty, DocList}}

\* no run has started
Idle ==
    /\ argv = <<>>
    /\ new = FALSE
    /\ pc = "idle"
    /\ mode = "fresh"
    /\ fallback = FALSE
    /\ data = NoData
    /\ idx = 1
    /\ reads = 0
    /\ errors = 0
    /\ lastIn = <<>>
    /\ lastLeaf = 0
    /\ called = NoCalls
    /\ config = NoConfig
    /\ written = NoConfig
    /\ before = file
    /\ prev = NoPrev
    /\ wr = "none"
    /\ wf = "none"
    /\ response = NoResponse
    /\ entry = NoEntry
    /\ issued = <<>>
    /\ freshRan = NotRun
    /\ output = "not run"

Init ==
    /\ file \in InitFiles
    /\ Idle
    /\ klass = <<>>
    /\ anno = <<>>
    /\ faults = FALSE

Next ==
    \/ Main
    \/ Construct
    \/ CreatePath
    \/ SelectOption
    \/ SelectUsername
    \/ SelectPassword
    \/ SelectInt

Spec == Init /\ [][Next]_vars

-----------------------------------------------------------------------------
(* The first run of the program on a machine without a document, with every  *)
(* kind of line typed at a choice: numbers below, in and above the range of  *)
(* the options, the DEFAULT line of every choice, and lines that are no      *)
(* number.                                                                   *)

AllOptionLines ==
    {<<"-", "1">>, <<"0">>, <<"1">>, <<"2">>, <<"3">>, <<"4">>, <<"5">>, <<"x">>, <<>>}

SelectOptionAny ==
    Waiting("select_option") /\ \E inp \in AllOptionLines : Read(inp, select_option(Leaves[idx].f, inp))

FirstRun == pc = "idle" /\ Construct

InitSelect == Init /\ file = NoFile

NextSelect ==
    \/ FirstRun
    \/ CreatePath
    \/ SelectOptionAny
    \/ SelectUsername
    \/ SelectPassword
    \/ SelectInt

SpecSelect == InitSelect /\ [][NextSelect]_vars

-----------------------------------------------------------------------------
(* The first run with the retry loop of create_path examined: up to MaxRetry  *)
(* paths that do not exist before one that does, at target_directory and at  *)
(* main_code.  Path("") is Path("."), which exists.                          *)

PathLines ==
    {<<"s","r","c","/">>, <<".">>, <<>>, <<"n","o","p","e">>, <<"s","r","c","/","x">>}

CreatePathRetry ==
    Waiting("create_path") /\ \E inp \in PathLines : ReadBounded(inp, create_path(inp), MaxRetry)

NextRetry ==
    \/ FirstRun
    \/ CreatePathRetry
    \/ SelectOption
    \/ SelectUsername
    \/ SelectPassword
    \/ SelectInt

SpecRetry == InitSelect /\ [][NextRetry]_vars

-----------------------------------------------------------------------------
(* Runs of the program: main, one run after the other, with what the tracker *)
(* API, git and pytest answer.                                               *)

MainRun ==
    /\ pc \in {"idle", "crashed"} \/ (pc = "done" /\ wf \in {"exit", "raised", "end"})
    /\ Main

InitMain ==
    /\ file \in {NoFile, FileOf(DocFull), FileOf(DocNoCommit)}
    /\ Idle
    /\ klass = <<>>
    /\ anno = <<>>
    /\ faults = FALSE

NextMain ==
    \/ MainRun
    \/ CreatePath
    \/ SelectOption
    \/ SelectUsername
    \/ SelectPassword
    \/ SelectInt
    \/ GrabEntry
    \/ RunManagementRoutine

SpecMain == InitMain /\ [][NextMain]_vars

-----------------------------------------------------------------------------
(* Runs on a file system that can fail the write of new_config: open("w")    *)
(* raises, or the write stops after the file was opened and emptied.  The    *)
(* runs are the first run and the runs that follow a run that failed.        *)

InitCrash ==
    /\ file \in {NoFile, FileOf(DocFull)}
    /\ Idle
    /\ klass = <<>>
    /\ anno = <<>>
    /\ faults = TRUE

ConstructAgain == pc \in {"idle", "crashed"} /\ Construct

NextCrash ==
    \/ ConstructAgain
    \/ CreatePath
    \/ SelectOption
    \/ SelectUsername
    \/ SelectPassword
    \/ SelectInt

SpecCrash == InitCrash /\ [][NextCrash]_vars

-----------------------------------------------------------------------------
(* The schema reflector on classes that extend other classes: every __mro__  *)
(* of up to MaxMro classes (leaf first, as Python orders it), each declaring  *)
(* up to MaxFields annotations x or y of shape int, "str" (a string           *)
(* annotation) or Optional[int].                                              *)

Shape(lit, ty) == [lit |-> lit, ty |-> ty]
Shapes == {Shape(FALSE, "int"), Shape(TRUE, "str"), Shape(FALSE, "Optional[int]")}
Names == {"x", "y"}
Annotation(k, val) == [k |-> k, val |-> val]

RECURSIVE AnnotationSeqs(_)
AnnotationSeqs(n) ==
    IF n = 0 THEN {<<>>}
    ELSE LET shorter == AnnotationSeqs(n - 1)
         IN  shorter \cup
             {Append(s, Annotation(k, v)) :
                 s \in {q \in shorter : Len(q) = n - 1}, k \in Names, v \in Shapes}

\* a class body declares a name once
OwnAnnotations ==
    {s \in AnnotationSeqs(MaxFields) : \A i, j \in 1..Len(s) : s[i].k = s[j].k => i = j}

Classes == {object} \cup {Class(TRUE, s) : s \in OwnAnnotations}

RECURSIVE MroSeqs(_)
MroSeqs(n) ==
    IF n = 0 THEN {<<>>}
    ELSE LET shorter == MroSeqs(n - 1)
         IN  shorter \cup
             {Append(s, c) : s \in {q \in shorter : Len(q) = n - 1}, c \in Classes}

Hierarchies == {Append(m, object) : m \in MroSeqs(MaxMro) \ {<<>>}}

NotReflected == <<Annotation("not called", Shape(FALSE, ""))>>

AllAnnotations ==
    /\ anno = NotReflected
    /\ anno' = all_annotations(klass)
    /\ UNCHANGED <<file, argv, new, pc, mode, fallback, data, idx, reads, errors,
                   lastIn, lastLeaf, called, config, written, before, prev,
                   klass, faults, wr, wf, response, entry, issued, freshRan,
                   output>>

InitReflect ==
    /\ file = NoFile
    /\ Idle
    /\ klass \in Hierarchies
    /\ anno = NotReflected
    /\ faults = FALSE

NextReflect == AllAnnotations

SpecReflect == InitReflect /\ [][NextReflect]_vars

-----------------------------------------------------------------------------
(* Properties *)

Finished == pc \in {"done", "crashed"}
Returned == pc = "done"
FlagGiven == Len(argv) > 1 /\ argv[2] \in {"--new_config", "-nc"}
Optionals == {i \in LeafIds : Leaves[i].f.opt}
Booleans == {i \in LeafIds : Leaves[i].f.item = "bool"}
\* the run loaded the document that new_config wrote for the value `written`
ReusedWritten ==
    /\ Returned /\ mode = "reuse"
    /\ written # NoConfig /\ before = FileOf(Dumps(written))

\* C1 (as claimed): a value written by new_config and loaded again on the Reuse
\* path is returned equal to the value written, field by field.
C1_RoundTrip == ReusedWritten => config = written

\* C2: two successive Reuse runs of a document that new_config wrote return equal
\* values, and neither of them calls a prompt resolver.
C2_IdempotentReuse ==
    /\ (/\ pc # "idle" /\ mode = "reuse"
        /\ written # NoConfig /\ before = FileOf(Dumps(written))) =>
            Returned /\ Prompted(called) = {}
    /\ (ReusedWritten /\ prev # NoPrev) =>
            config = prev.config /\ prev.prompts = 0

C2_Witness ==
    /\ ReusedWritten /\ prev # NoPrev
    /\ written[L_type_checking] = NoneV
    /\ written[L_environment] = StrV(T_Conda)

\* C3: a run that finds a document that is no valid JSON, without the
\* regeneration request, does not crash: it resolves every field with no
\* existing value (prompting for every field that is no boolean), writes the
\* new document and returns the value it wrote.
C3_DecodeFailureFallsBack ==
    (pc # "idle" /\ before.exists /\ ~before.valid /\ ~new) =>
        /\ fallback /\ mode = "fresh"
        /\ pc # "crashed"
        /\ Returned =>
            /\ config # NoConfig
            /\ file = FileOf(Dumps(config))
            /\ \A i \in LeafIds \ Booleans : called[i] = Resolver(Leaves[i].f)
            /\ \A i \in Booleans : config[i] = Leaves[i].f.default

C3_Witness ==
    /\ Returned /\ before = Garbage /\ ~new /\ fallback
    /\ file.valid /\ config[L_project] = IntV(7)

\* C4 (as claimed): a run on the Reuse path returns a value and leaves the
\* document as it was.
C4_ReuseReturnsReadOnly ==
    (Finished /\ mode = "reuse") => (Returned /\ config # NoConfig /\ file = before)

\* the frame half of C4: no Reuse run, returned or raised, changes the document
C4_ReuseNeverWrites == (pc # "idle" /\ mode = "reuse") => file = before

\* C5 (as claimed): a program run started with --new_config or -nc is a Fresh
\* run: nothing of an existing document is adopted and the document is
\* overwritten.
C5_FlagForcesFresh ==
    (pc # "idle" /\ FlagGiven) =>
        /\ mode = "fresh"
        /\ Returned => file = FileOf(Dumps(config))

\* C6 (as claimed): in a Fresh run every Optional field is absent in the
\* returned value and no prompt resolver was called for it.
C6_OptionalsSilent ==
    (Returned /\ mode = "fresh") =>
        \A i \in Optionals : config[i] = NoneV /\ called[i] = "none"

\* C6 (amended): in a Fresh run a prompt resolver is called for every Optional
\* field: select_option for the optional choices, select_password for api_key,
\* select_int for project.  An optional choice is absent only when the operator
\* typed the number of its DEFAULT line; api_key and project are never absent.
C6_OptionalsPrompted ==
    /\ (Returned /\ mode = "fresh") =>
          /\ \A i \in {L_type_checking, L_security_checking, L_linting, L_tests} :
                called[i] = "select_option"
          /\ called[L_api_key] = "select_password" /\ config[L_api_key] # NoneV
          /\ called[L_project] = "select_int" /\ config[L_project] # NoneV
    /\ \A i \in Optionals :
          (pc # "idle" /\ mode = "fresh" /\ lastLeaf = i /\ data[i] = NoneV) =>
              lastIn = NatStr(Len(Leaves[i].f.options) + 1)

C6_Witness ==
    /\ Returned /\ mode = "fresh"
    /\ config[L_type_checking] = NoneV
    /\ config[L_linting] = StrV(T_Flake8)
    /\ config[L_project] = IntV(7)

\* C7 (as claimed): a Reuse run of a complete document in which optional fields
\* are null returns, and the value has absent for exactly those fields.
C7_NullOptionalsSurvive ==
    (Finished /\ mode = "reuse" /\ before.doc.keys = LeafIds) =>
        /\ Returned
        /\ \A i \in Optionals : (before.doc.val[i] = NoneV) <=> (config[i] = NoneV)

\* C8: in a Fresh run no prompt resolver is called for a boolean field, and the
\* field has its declared default (false for git.add, git.push and
\* toggl.cancel, true for git.commit and python.format_code).
C8_BooleansDefault ==
    (pc # "idle" /\ mode = "fresh") =>
        \A i \in Booleans :
            /\ called[i] = "none"
            /\ i < idx => data[i] = Leaves[i].f.default
            /\ Returned => config[i] = Leaves[i].f.default

C8_Witness ==
    /\ Returned /\ mode = "fresh"
    /\ config[L_add] = BoolV(FALSE) /\ config[L_commit] = BoolV(TRUE)
    /\ config[L_format_code] = BoolV(TRUE)
    /\ Prompted(called) # {}

\* C9: a Reuse run returns the password string of the document character for
\* character: select_password is not called and the string is not encoded again.
C9_SecretVerbatim ==
    (/\ Returned /\ mode = "reuse"
     /\ L_password \in before.doc.keys
     /\ before.doc.val[L_password].t = "str") =>
        /\ config[L_password] = before.doc.val[L_password]
        /\ called[L_password] = "none"

C9_Witness ==
    /\ Returned /\ mode = "reuse" /\ written # NoConfig
    /\ before.doc.val[L_password] = StrV(<<"Y", "W", "I", "=">>)
    /\ config[L_password] = StrV(<<"Y", "W", "I", "=">>)


\* C10: select_option returns options[i-1] for a line that is an integer i with
\* 1 <= i <= n, the declared default (absent included) for the line n+1, and for
\* every other line returns nothing, prints the error and prompts again; what
\* it returns is an option or the default.
C10_SelectOption ==
    \A i \in LeafIds :
        (pc # "idle" /\ called[i] = "select_option") =>
            LET items == Leaves[i].f.options
                n == Len(items)
                D == Leaves[i].f.default
                sel == ParseInt(lastIn)
            IN  /\ lastLeaf = i =>
                      IF sel # Raised /\ sel.n >= 1 /\ sel.n <= n
                      THEN data[i] = StrV(items[sel.n])
                      ELSE IF sel # Raised /\ sel.n = n + 1
                      THEN data[i] = D
                      ELSE data[i] = Unset /\ pc = "prompt" /\ idx = i /\ errors >= 1
                /\ data[i] # Unset =>
                      data[i] = D \/ \E j \in 1..n : data[i] = StrV(items[j])

C10_Witness ==
    /\ lastLeaf = L_linting /\ lastIn = <<"4">> /\ errors = 1
    /\ data[L_linting] = NoneV
    /\ data[L_package_manager] = StrV(T_Poetry)
    /\ data[L_tests] = Unset

\* C11: create_path fed N paths that do not exist and then one that exists
\* returns that path after N+1 reads and N error messages; after a path that
\* does not exist it has returned nothing and is reading again, and the path it
\* returns exists.
C11_RetryConvergence ==
    \A i \in LeafIds :
        (pc # "idle" /\ called[i] = "create_path") =>
            /\ lastLeaf = i =>
                  IF Exists(lastIn)
                  THEN /\ data[i] = StrV(lastIn)
                       /\ reads = errors + 1
                       /\ idx > i
                  ELSE /\ data[i] = Unset
                       /\ pc = "prompt" /\ idx = i
                       /\ reads = errors /\ errors >= 1
            /\ data[i] # Unset => data[i].t = "str" /\ Exists(data[i].s)

C11_Witness ==
    /\ lastLeaf = L_main_code /\ errors = MaxRetry /\ reads = MaxRetry + 1
    /\ data[L_main_code] = StrV(<<"s","r","c","/">>)
    /\ data[L_target_directory] = StrV(<<>>)

\* the classes of klass (1 is the leaf) that declare the name k, and the shape
\* class m declares for it
Declaring(k) ==
    {m \in 1..Len(klass) : klass[m].annotated /\ \E j \in 1..Len(klass[m].annotations) : klass[m].annotations[j].k = k}
Declared(m, k) ==
    LET own == klass[m].annotations
    IN  own[CHOOSE j \in 1..Len(own) : own[j].k = k]
\* name a is declared first before name b is, the outer-most class first
FirstBefore(a, b) ==
    LET ma == CHOOSE m \in Declaring(a) : \A q \in Declaring(a) : q <= m
        mb == CHOOSE m \in Declaring(b) : \A q \in Declaring(b) : q <= m
        pos(m, k) == CHOOSE j \in 1..Len(klass[m].annotations) : klass[m].annotations[j].k = k
    IN  ma > mb \/ (ma = mb /\ pos(ma, a) < pos(mb, b))
Reflected == anno # NotReflected

\* the half of C12 about names and order: every declared name once, in the
\* order of first declaration with the outer-most class first
C12_FirstDeclarationOrder ==
    Reflected =>
        /\ {anno[i].k : i \in 1..Len(anno)} = {k \in Names : Declaring(k) # {}}
        /\ \A i, j \in 1..Len(anno) : i < j => FirstBefore(anno[i].k, anno[j].k)

\* C12 (as claimed): all_annotations returns every declared name once, in the
\* order of first declaration with the outer-most class first, and for a name
\* declared by several classes the shape that the class closest to the leaf
\* declares.
C12_MergeRule ==
    Reflected =>
        /\ {anno[i].k : i \in 1..Len(anno)} = {k \in Names : Declaring(k) # {}}
        /\ \A i, j \in 1..Len(anno) : i < j => FirstBefore(anno[i].k, anno[j].k)
        /\ \A i \in 1..Len(anno) :
              LET leafmost == CHOOSE m \in Declaring(anno[i].k) : \A q \in Declaring(anno[i].k) : m <= q
              IN  anno[i] = EvalAnnotation(Declared(leafmost, anno[i].k))

\* what the code does for such a name: the outer-most declaration is kept
C12_OutermostWins ==
    Reflected =>
        \A i \in 1..Len(anno) :
            LET outermost == CHOOSE m \in Declaring(anno[i].k) : \A q \in Declaring(anno[i].k) : q <= m
            IN  anno[i] = EvalAnnotation(Declared(outermost, anno[i].k))

\* C13 (as claimed): when the write of new_config fails, at open or after the
\* file was opened, the run ends and the document is as it was before the run.
C13_FailedWriteKeepsDocument ==
    (pc = "crashed" /\ wr \in {"open failed", "interrupted"} /\ before.exists) =>
        file = before

\* the half of C13 that holds: a write that fails at open changes nothing
C13_FailedOpenKeepsDocument ==
    (pc = "crashed" /\ wr = "open failed") => file = before

\* C14 (as claimed): when a run returns a configuration value, every value a
\* prompt resolver collected in that run is in the persisted document.
C14_PromptedIsPersisted ==
    Returned =>
        \A i \in Prompted(called) :
            /\ file.valid
            /\ i \in file.doc.keys
            /\ file.doc.val[i] = CustomJSONEncoder(config[i])

\* the half of C14 that holds: the Fresh path persists what it returns
C14_FreshIsPersisted ==
    (Returned /\ mode = "fresh") => file = FileOf(Dumps(config))

Existing(i) == mode = "reuse" /\ i \in before.doc.keys /\ before.doc.val[i] # NoneV

\* C17 (as claimed): after a Fresh or Reuse run every boolean field has the
\* value the existing document stores for it or, when the document has no
\* value for it, its declared default.
C17_BooleanDefaultOrExisting ==
    Returned =>
        \A i \in Booleans :
            config[i] = IF Existing(i) THEN before.doc.val[i] ELSE Leaves[i].f.default

\* the part of C17 that holds: a boolean of a record that is missing as a whole
\* has its default, and a stored boolean is adopted
C17_BooleanOfMissingRecord ==
    (Returned /\ mode = "reuse") =>
        \A i \in Booleans :
            /\ before.doc.recs[Leaves[i].rec] = "missing" => config[i] = Leaves[i].f.default
            /\ Existing(i) => config[i] = before.doc.val[i]

\* C18: the write is not atomic.  Whatever part of the text an interrupted
\* write left (nothing, or a strict prefix), the file is no JSON document; the
\* next run without the regeneration request takes the except branch of
\* load_config, adopts nothing from the file, does not raise on it, and when it
\* returns it has prompted for every field and written a complete document.
C18_CrashMidWriteRecovery ==
    /\ wr = "interrupted" => (file.exists /\ ~file.valid)
    /\ (pc # "idle" /\ before = Interrupted /\ ~new) =>
          /\ mode = "fresh" /\ fallback
          /\ pc = "crashed" => wr \in {"open failed", "interrupted"}
          /\ Returned =>
                /\ file = FileOf(Dumps(config))
                /\ \A i \in LeafIds \ Booleans : called[i] = Resolver(Leaves[i].f)
                /\ \A i \in Booleans : config[i] = Leaves[i].f.default

C18_Witness ==
    /\ Returned /\ before = Interrupted /\ ~new /\ fallback
    /\ wr = "written" /\ file.valid
    /\ config[L_tests] = NoneV /\ config[L_project] = IntV(7)

\* the run held a tracker entry and the code-quality routine did not end it
\* with sys.exit
RoutinePassed == entry # NoEntry /\ wf \in {"raised", "end"}
GitOrStop == {"git add .", "git commit -m", "git push origin main", "PATCH time_entries/stop"}
Issued(c) == \E i \in 1..Len(issued) : issued[i].cmd = c

\* C16 (as claimed): a run of main that obtained the configuration, found a git
\* repository, fetched a running entry of the configured project and had no
\* failure reported by the code-quality steps issues, when git.commit is true,
\* git commit with the title of the entry's description as message, and after
\* it, when toggl.cancel is true, the request that stops the entry.
C16_WorkflowReachesCommit ==
    (RoutinePassed /\ PyBool(config[L_commit]).b) =>
        \E i \in 1..Len(issued) :
            /\ issued[i] = Cmd("git commit -m", title(entry.description))
            /\ PyBool(config[L_cancel]).b =>
                  \E j \in (i + 1)..Len(issued) : issued[j].cmd = "PATCH time_entries/stop"

\* what the code does instead: the routine ends with AttributeError and no run
\* issues git add, git commit, git push or the stop request
C16_NothingAfterTheRoutine ==
    /\ RoutinePassed => wf = "raised"
    /\ \A c \in GitOrStop : ~Issued(c)

\* C19 (as claimed): the code-quality steps run in the Reuse run of a document
\* are the steps that were run in the Fresh run that wrote the document.
C19_SameStepsOnReuse ==
    (/\ mode = "reuse" /\ written # NoConfig /\ before = FileOf(Dumps(written))
     /\ RoutinePassed /\ freshRan # NotRun) =>
        Steps(issued) = freshRan

\* the part of C19 that holds: documents in which no optional step is absent
C19_SameStepsWhenNoneAbsent ==
    (/\ mode = "reuse" /\ written # NoConfig /\ before = FileOf(Dumps(written))
     /\ RoutinePassed /\ freshRan # NotRun
     /\ \A i \in {L_tests, L_type_checking, L_linting} : written[i] # NoneV) =>
        Steps(issued) = freshRan

\* the API answered with a status that is not 200, with no running entry, or
\* with an entry of another project than the configured one
BadResponse ==
    \/ response.status_code # 200
    \/ ~response.running
    \/ config[L_project] # NoneV /\ config[L_project] # IntV(response.project_id)

\* C20: git add, git commit, git push and the stop request are issued only in
\* a run in which grab_tggl_time_entry returned an entry; after a status that
\* is not 200, no running entry or an entry of another project the run has
\* ended (sys.exit, or the TrackerError that main does not catch) with nothing
\* issued but the repository check and the request for the entry.
C20_NoChangeWithoutEntry ==
    /\ (\E c \in GitOrStop : Issued(c)) => entry # NoEntry
    /\ (response # NoResponse /\ BadResponse) =>
          /\ entry = NoEntry
          /\ wf \in {"exit", "raised"}
          /\ issued = <<Cmd("git rev-parse --is-inside-work-tree", <<>>),
                        Cmd("GET me/time_entries/current", <<>>)>>

C20_Witness ==
    /\ wf = "raised" /\ entry = NoEntry
    /\ response = Response(200, TRUE, 0)
    /\ config[L_project] = IntV(7)
    /\ Len(issued) = 2

\* the run held a tracker entry and main called the code-quality routine
RoutineRan == entry # NoEntry /\ wf \in {"exit", "raised", "end"}

\* C21: in a run with tests configured as Pytest the routine runs the test
\* command; when its output reports a failure the program exits there, with
\* no git add, git commit, git push and no stop request issued, whatever
\* git.add, git.commit, git.push and toggl.cancel are; and in every run each
\* of these four operations comes after every command of the code-quality
\* routine, in a run whose routine returned.
C21_FailingTestsCancel ==
    /\ (RoutineRan /\ config[L_tests] = StrV(T_Pytest)) => output # "not run"
    /\ output = "failed" =>
          /\ wf = "exit"
          /\ \A c \in GitOrStop : ~Issued(c)
    /\ \A i \in 1..Len(issued) :
          issued[i].cmd \in GitOrStop =>
              /\ wf = "end"
              /\ \A j \in 1..Len(issued) : StepOf(issued[j]) # "other" => j < i

C21_Witness ==
    /\ output = "failed" /\ wf = "exit"
    /\ config[L_tests] = StrV(T_Pytest)
    /\ PyBool(config[L_commit]).b /\ PyBool(config[L_cancel]).b
    /\ Issued("pytest tests -v") \/ Issued("poetry run pytest tests -v")

\* the types of a value that is a concrete scalar or None
Concrete == {"bool", "int", "str", "path", "none"}

\* C22: every configuration a run returns holds at every leaf a bool, an int,
\* a str, a path or None, never a typing annotation; in a Fresh run every
\* field that generate_config has passed was given its value by one of the
\* branches of the dispatch; and a run that does not return its configuration
\* was ended by an exception, with no configuration handed out.
C22_NoUnresolvedNodes ==
    /\ Returned => \A i \in LeafIds : config[i].t \in Concrete
    /\ (pc # "idle" /\ mode = "fresh") =>
          /\ \A i \in LeafIds : data[i].t # "type"
          /\ \A i \in LeafIds : i < idx => data[i].t \in Concrete
    /\ pc = "crashed" => config = NoConfig

C22_Witness ==
    /\ Returned /\ mode = "fresh"
    /\ Prompted(called) # {}
    /\ \A i \in LeafIds : config[i].t \in Concrete
    /\ config[L_project].t = "int"

====
